---- MODULE Spec2Model ----
(***************************************************************************)
(* LensLore: the App component (src/App.tsx) and its remote services       *)
(* (src/services/geminiService.ts) as a state machine.                     *)
(*                                                                         *)
(* One action is one run-to-completion block of JavaScript: an event       *)
(* handler, or the part of the async function startAnalysis between two    *)
(* awaits.  An await is a suspension point: the continuation is a separate *)
(* action, taken when the awaited promise settles.                         *)
(*                                                                         *)
(* A nullable value is a sequence of length at most one: Null is the       *)
(* empty sequence, Some(v) the one-element sequence.                       *)
(***************************************************************************)
EXTENDS Integers, Sequences, FiniteSets, TLC

\* ------------------------------------------------------------------ bounds
\* number of files the user selects over a run (each starts one attempt)
MaxAttempts == 2
\* number of playback sources created over a run
MaxSources == 2
\* longest grounding-chunk list handed to the source extraction
MaxChunks == 4
\* how far past the narration limit the longest description goes
MaxExtra == 20

\* ------------------------------------------------------------------ values
Null == << >>

Some(v) == << v >>

\* the AppStatus enum
AppStatus ==
    {"IDLE", "ANALYZING_IMAGE", "SEARCHING_INFO", "GENERATING_AUDIO", "COMPLETE", "ERROR"}

\* the states the loading view is rendered in
InProgress == {"ANALYZING_IMAGE", "SEARCHING_INFO", "GENERATING_AUDIO"}

\* the text of the catch block when the failure carries no message
FallbackMessage == "Something went wrong during analysis."

MissingKeyMessage == "API_KEY is missing in environment variables"

NoVisionMessage == "No response from vision model"

NoAudioMessage == "No audio generated"

FallbackDescription == "Could not retrieve details."

FallbackTitle == "Source"

\* what FileReader.readAsDataURL yields: <<header, payload>>, the text before
\* and after the first comma of the data URI
Files == { <<"data:image/jpeg;base64", "img">> }

\* messages of transport-level rejections of a remote call; "" is a failure
\* that carries no message
NetMessages == {"Failed to fetch", ""}

\* the result of a call: a value, or a thrown error with its message
Ok(v) == [ok |-> TRUE, value |-> v, message |-> ""]

Throw(m) == [ok |-> FALSE, value |-> Null, message |-> m]

\* a response of the backend: the promise of generateContent rejects, or it
\* resolves with a response object
Rejects(m) == [rejected |-> TRUE, message |-> m, text |-> "", chunks |-> << >>, audio |-> ""]

Resolves(t, c, a) == [rejected |-> FALSE, message |-> "", text |-> t, chunks |-> c, audio |-> a]

VARIABLES
    status,           \* useState<AppStatus>
    image,            \* useState<string | null>
    error,            \* useState<AppError | null>
    landmark,         \* useState<LandmarkAnalysisResult | null>
    details,          \* useState<LandmarkFullDetails | null>
    audioBuffer,      \* useState<AudioBuffer | null>
    isPlaying,        \* useState(false)
    audioContextRef,  \* useRef<AudioContext | null>: Null or Some(context id)
    sourceNodeRef,    \* useRef<AudioBufferSourceNode | null>: Null or Some(index into sources)
    sources,          \* every AudioBufferSourceNode created so far
    readers,          \* FileReaders whose onload has not fired yet
    attempts,         \* every call of startAnalysis: where it is suspended
    apiKey,           \* process.env.API_KEY is set
    selected,         \* number of files selected so far
    chunksIn,         \* input of the source extraction, when it is checked on its own
    detailsOut,       \* what getLandmarkDetails returns for it: Null until it is applied
    descriptionIn,    \* a description, as the sequence of its characters
    ttsTextOut        \* the text startAnalysis sends to generateNarration for it: Null until built

vars ==
    << status, image, error, landmark, details, audioBuffer, isPlaying,
       audioContextRef, sourceNodeRef, sources, readers, attempts, apiKey,
       selected, chunksIn, detailsOut, descriptionIn, ttsTextOut >>

appVars ==
    << status, image, error, landmark, details, audioBuffer, isPlaying,
       audioContextRef, sourceNodeRef, sources, readers, attempts, apiKey,
       selected >>

\* ------------------------------------------------- geminiService.ts
\* the text the vision model returns when it follows the response schema
LandmarkJSON == "{\"name\":\"Eiffel Tower\",\"visualDescription\":\"An iron lattice tower\"}"

\* a text that is not JSON
MalformedJSON == "<html>"

SyntaxErrorMessage == "Unexpected token < in JSON at position 0"

\* JSON.parse on the texts above
JSONparse(text) ==
    IF text = LandmarkJSON
    THEN Ok([name |-> "Eiffel Tower", visualDescription |-> "An iron lattice tower"])
    ELSE Throw(SyntaxErrorMessage)

\* getClient without the check of process.env.API_KEY
getClientNoKeyCheck == Ok("client")

\* getClient: throws when process.env.API_KEY is falsy
getClient == IF apiKey THEN Ok("client") ELSE Throw(MissingKeyMessage)

\* identifyLandmark, given what the backend answers
identifyLandmark(resp) ==
    IF ~getClient.ok THEN Throw(getClient.message)
    ELSE IF resp.rejected THEN Throw(resp.message)
    ELSE IF resp.text = "" THEN Throw(NoVisionMessage)
    ELSE JSONparse(resp.text)

\* a grounding chunk: web is absent (Null) or Some([title, uri]); an absent
\* or empty title or uri is ""
NoWeb == [web |-> Null]

Web(t, u) == [web |-> Some([title |-> t, uri |-> u])]

\* chunks.map(c => ({title: c.web?.title || "Source", uri: c.web?.uri || ""}))
mapChunk(c) ==
    IF c.web = Null
    THEN [title |-> FallbackTitle, uri |-> ""]
    ELSE [title |-> IF c.web[1].title # "" THEN c.web[1].title ELSE FallbackTitle,
          uri |-> c.web[1].uri]

\* .map(...).filter(s => s.uri !== "")
mappedSources(chunks) ==
    LET mapped == [i \in 1..Len(chunks) |-> mapChunk(chunks[i])]
        nonEmpty(s) == s.uri # ""
    IN  SelectSeq(mapped, nonEmpty)

\* Map.prototype.set on a Map kept as the sequence of its <<key, value>>
\* entries in insertion order: an existing key keeps its place and takes the
\* new value, a new key is appended
MapSetAppend(m, k, v) == Append(m, << k, v >>)

MapSet(m, k, v) ==
    IF \E i \in 1..Len(m) : m[i][1] = k
    THEN [i \in 1..Len(m) |-> IF m[i][1] = k THEN << k, v >> ELSE m[i]]
    ELSE Append(m, << k, v >>)

\* new Map(entries): the entries are set in order
RECURSIVE NewMap(_)
NewMap(entries) ==
    IF entries = << >> THEN << >>
    ELSE LET n == Len(entries)
         IN  MapSet(NewMap(SubSeq(entries, 1, n - 1)), entries[n][1], entries[n][2])

\* Array.from(map.values())
MapValues(m) == [i \in 1..Len(m) |-> m[i][2]]

\* Array.from(new Map(sources.map(item => [item.uri, item])).values())
uniqueSources(srcs) ==
    MapValues(NewMap([i \in 1..Len(srcs) |-> << srcs[i].uri, srcs[i] >>]))

\* getLandmarkDetails treating an empty text as the vision step does
getLandmarkDetailsThrowOnEmpty(resp) ==
    IF ~getClient.ok THEN Throw(getClient.message)
    ELSE IF resp.rejected THEN Throw(resp.message)
    ELSE IF resp.text = "" THEN Throw(NoVisionMessage)
    ELSE Ok([description |-> resp.text,
             sources |-> uniqueSources(mappedSources(resp.chunks))])

\* getLandmarkDetails, given what the backend answers
getLandmarkDetails(resp) ==
    IF ~getClient.ok THEN Throw(getClient.message)
    ELSE IF resp.rejected THEN Throw(resp.message)
    ELSE Ok([description |-> IF resp.text # "" THEN resp.text ELSE FallbackDescription,
             sources |-> uniqueSources(mappedSources(resp.chunks))])

\* generateNarration, given what the backend answers
generateNarration(resp) ==
    IF ~getClient.ok THEN Throw(getClient.message)
    ELSE IF resp.rejected THEN Throw(resp.message)
    ELSE IF resp.audio = "" THEN Throw(NoAudioMessage)
    ELSE Ok(resp.audio)

\* ------------------------------------------------- what the backend answers
VisionTexts == {"", MalformedJSON, LandmarkJSON}

VisionResponses ==
    {Rejects(m) : m \in NetMessages} \cup {Resolves(t, << >>, "") : t \in VisionTexts}

DetailTexts == {"", "Built in 1889."}

\* the chunk list the pipeline is run with; getLandmarkDetails on its own is
\* checked over every list up to MaxChunks
PipelineChunks == << Web("Wiki", "a"), NoWeb, Web("", "a") >>

DetailResponses ==
    {Rejects(m) : m \in NetMessages}
        \cup {Resolves("", << >>, "")}
        \cup {Resolves(t, PipelineChunks, "") : t \in DetailTexts}

AudioPayloads == {"", "AAAA"}

NarrationResponses ==
    {Rejects(m) : m \in NetMessages} \cup {Resolves("", << >>, a) : a \in AudioPayloads}

\* audioUtils: decodeBase64 and decodeAudioData
decodeBase64(b64) == [bytes |-> b64]

DecodeErrorMessage == "Unable to decode audio data"

DecodeResults(raw) == {Ok([samples |-> raw.bytes]), Throw(DecodeErrorMessage)}

\* ------------------------------------------------- App.tsx: state
\* where a call of startAnalysis is: suspended at one of its four awaits, or
\* returned (after setStatus(COMPLETE), or after the catch block)
Suspended == {"identify", "details", "narration", "decode"}

RemoteCall == {"identify", "details", "narration"}

Returned == {"complete", "failed"}

\* pc and rawBytes are the attempt's own state; superseded is history, kept to
\* state properties: resetApp or a later startAnalysis has run since the
\* remote call the attempt is suspended at was issued
Attempt(pc, raw, sup) == [pc |-> pc, rawBytes |-> raw, superseded |-> sup]

\* an AudioBufferSourceNode after start(): playing, or ended (stop() was
\* called, or the buffer ran out); its ended event is queued when it ends
\* and delivered to onended later
Source(st, queued) == [state |-> st, endedQueued |-> queued]

\* the state after the first render
AppInit ==
    /\ status = "IDLE"
    /\ image = Null
    /\ error = Null
    /\ landmark = Null
    /\ details = Null
    /\ audioBuffer = Null
    /\ isPlaying = FALSE
    /\ audioContextRef = Null
    /\ sourceNodeRef = Null
    /\ sources = << >>
    /\ readers = << >>
    /\ attempts = << >>
    /\ apiKey \in BOOLEAN
    /\ selected = 0

Init ==
    /\ AppInit
    /\ chunksIn = << >>
    /\ detailsOut = Null
    /\ descriptionIn = << >>
    /\ ttsTextOut = Null

\* ------------------------------------------------- App.tsx: what is rendered
IdleView == status = "IDLE"

LoadingView == status \in InProgress

ErrorView == status = "ERROR"

CompleteView ==
    status = "COMPLETE" /\ landmark # Null /\ details # Null /\ image # Null

\* ------------------------------------------------- App.tsx: handlers
\* the attempts suspended at an await now
Pending == {i \in 1..Len(attempts) : attempts[i].pc \in Suspended}

\* the attempts whose remote call has not settled yet
PendingCalls == {i \in Pending : attempts[i].pc \in RemoteCall}

SetPc(i, pc) == [attempts EXCEPT ![i] = Attempt(pc, @.rawBytes, FALSE)]

\* the history of the pending remote calls when resetApp or startAnalysis runs
Supersede(as) ==
    [i \in 1..Len(as) |->
        IF as[i].pc \in RemoteCall THEN Attempt(as[i].pc, as[i].rawBytes, TRUE) ELSE as[i]]

\* handleFileSelect: a file was chosen in one of the two inputs of the idle
\* view; a FileReader starts reading it
handleFileSelect(file) ==
    /\ IdleView
    /\ selected < MaxAttempts
    /\ readers' = Append(readers, file)
    /\ selected' = selected + 1
    /\ UNCHANGED << status, image, error, landmark, details, audioBuffer, isPlaying,
                    audioContextRef, sourceNodeRef, sources, attempts, apiKey >>

\* startAnalysis up to its first await: clear, ANALYZING_IMAGE, call identifyLandmark
startAnalysisKeepResults(imageBase64) ==
    /\ error' = Null
    /\ landmark' = landmark
    /\ details' = Null
    /\ audioBuffer' = Null
    /\ status' = "ANALYZING_IMAGE"
    /\ attempts' = Append(Supersede(attempts), Attempt("identify", Null, FALSE))

startAnalysis(imageBase64) ==
    /\ error' = Null
    /\ landmark' = Null
    /\ details' = Null
    /\ audioBuffer' = Null
    /\ status' = "ANALYZING_IMAGE"
    /\ attempts' = Append(Supersede(attempts), Attempt("identify", Null, FALSE))

\* reader.onload of the k-th reader still reading: setImage, startAnalysis
readerOnload(k) ==
    /\ k \in 1..Len(readers)
    /\ LET result == readers[k]
           base64Data == result[2]
       IN  /\ image' = Some(result)
           /\ startAnalysis(base64Data)
    /\ readers' = [j \in 1..(Len(readers) - 1) |-> IF j < k THEN readers[j] ELSE readers[j + 1]]
    /\ UNCHANGED << isPlaying, audioContextRef, sourceNodeRef, sources, apiKey, selected >>

\* the catch block of startAnalysis
catchKeepError(i, message) ==
    /\ error' = error
    /\ status' = "ERROR"
    /\ attempts' = SetPc(i, "failed")
    /\ UNCHANGED << image, landmark, details, audioBuffer, isPlaying, audioContextRef,
                    sourceNodeRef, sources, readers, apiKey, selected >>

catch(i, message) ==
    /\ error' = Some([message |-> IF message # "" THEN message ELSE FallbackMessage])
    /\ status' = "ERROR"
    /\ attempts' = SetPc(i, "failed")
    /\ UNCHANGED << image, landmark, details, audioBuffer, isPlaying, audioContextRef,
                    sourceNodeRef, sources, readers, apiKey, selected >>

\* await identifyLandmark settles: setLandmark, SEARCHING_INFO, call getLandmarkDetails
identifyDone(i, resp) ==
    /\ i \in 1..Len(attempts)
    /\ attempts[i].pc = "identify"
    /\ LET idResult == identifyLandmark(resp)
       IN  IF idResult.ok
           THEN /\ landmark' = Some(idResult.value)
                /\ status' = "SEARCHING_INFO"
                /\ attempts' = SetPc(i, "details")
                /\ UNCHANGED << image, error, details, audioBuffer, isPlaying,
                                audioContextRef, sourceNodeRef, sources, readers, apiKey,
                                selected >>
           ELSE catch(i, idResult.message)

\* await getLandmarkDetails settles: setDetails, GENERATING_AUDIO, call
\* generateNarration (with ttsText of the description; what is sent does not
\* decide what the backend answers here)
detailsDone(i, resp) ==
    /\ i \in 1..Len(attempts)
    /\ attempts[i].pc = "details"
    /\ LET detailResult == getLandmarkDetails(resp)
       IN  IF detailResult.ok
           THEN /\ details' = Some(detailResult.value)
                /\ status' = "GENERATING_AUDIO"
                /\ attempts' = SetPc(i, "narration")
                /\ UNCHANGED << image, error, landmark, audioBuffer, isPlaying,
                                audioContextRef, sourceNodeRef, sources, readers, apiKey,
                                selected >>
           ELSE catch(i, detailResult.message)

\* narrationDone creating an AudioContext whether or not there is one
narrationDoneNewContext(i, resp) ==
    /\ i \in 1..Len(attempts)
    /\ attempts[i].pc = "narration"
    /\ LET audioBase64 == generateNarration(resp)
       IN  IF audioBase64.ok
           THEN /\ audioContextRef' = Some(i)
                /\ attempts' = [attempts EXCEPT ![i] =
                                   Attempt("decode", Some(decodeBase64(audioBase64.value)), FALSE)]
                /\ UNCHANGED << status, image, error, landmark, details, audioBuffer,
                                isPlaying, sourceNodeRef, sources, readers, apiKey,
                                selected >>
           ELSE catch(i, audioBase64.message)

\* await generateNarration settles: create the AudioContext if there is none,
\* decodeBase64, call decodeAudioData (new AudioContext() in attempt i is
\* context i)
narrationDone(i, resp) ==
    /\ i \in 1..Len(attempts)
    /\ attempts[i].pc = "narration"
    /\ LET audioBase64 == generateNarration(resp)
       IN  IF audioBase64.ok
           THEN /\ audioContextRef' =
                       IF audioContextRef = Null THEN Some(i) ELSE audioContextRef
                /\ attempts' = [attempts EXCEPT ![i] =
                                   Attempt("decode", Some(decodeBase64(audioBase64.value)), FALSE)]
                /\ UNCHANGED << status, image, error, landmark, details, audioBuffer,
                                isPlaying, sourceNodeRef, sources, readers, apiKey,
                                selected >>
           ELSE catch(i, audioBase64.message)

\* await decodeAudioData settles: setAudioBuffer, COMPLETE
decodeDone(i, buffer) ==
    /\ i \in 1..Len(attempts)
    /\ attempts[i].pc = "decode"
    /\ IF buffer.ok
       THEN /\ audioBuffer' = Some(buffer.value)
            /\ status' = "COMPLETE"
            /\ attempts' = SetPc(i, "complete")
            /\ UNCHANGED << image, error, landmark, details, isPlaying, audioContextRef,
                            sourceNodeRef, sources, readers, apiKey, selected >>
       ELSE catch(i, buffer.message)

\* AudioBufferSourceNode.stop(): a playing source ends and its ended event
\* is queued; a source that has ended is left as it is
stop(srcs, n) ==
    IF srcs[n].state = "playing"
    THEN [srcs EXCEPT ![n] = Source("ended", TRUE)]
    ELSE srcs

\* toggleAudio
toggleAudioNoBufferCheck ==
    IF audioContextRef = Null
    THEN UNCHANGED appVars
    ELSE IF isPlaying
    THEN /\ sources' = IF sourceNodeRef # Null THEN stop(sources, sourceNodeRef[1]) ELSE sources
         /\ isPlaying' = FALSE
         /\ UNCHANGED << status, image, error, landmark, details, audioBuffer,
                         audioContextRef, sourceNodeRef, readers, attempts, apiKey,
                         selected >>
    ELSE /\ Len(sources) < MaxSources
         /\ sources' = Append(sources, Source("playing", FALSE))
         /\ sourceNodeRef' = Some(Len(sources) + 1)
         /\ isPlaying' = TRUE
         /\ UNCHANGED << status, image, error, landmark, details, audioBuffer,
                         audioContextRef, readers, attempts, apiKey, selected >>

toggleAudio ==
    IF audioContextRef = Null \/ audioBuffer = Null
    THEN UNCHANGED appVars
    ELSE IF isPlaying
    THEN /\ sources' = IF sourceNodeRef # Null THEN stop(sources, sourceNodeRef[1]) ELSE sources
         /\ isPlaying' = FALSE
         /\ UNCHANGED << status, image, error, landmark, details, audioBuffer,
                         audioContextRef, sourceNodeRef, readers, attempts, apiKey,
                         selected >>
    ELSE /\ Len(sources) < MaxSources
         /\ sources' = Append(sources, Source("playing", FALSE))
         /\ sourceNodeRef' = Some(Len(sources) + 1)
         /\ isPlaying' = TRUE
         /\ UNCHANGED << status, image, error, landmark, details, audioBuffer,
                         audioContextRef, readers, attempts, apiKey, selected >>

\* resetApp (clearing the file input, which the idle view alone renders,
\* changes nothing here; the attempts keep running: only their history is noted)
resetApp ==
    /\ sources' = IF sourceNodeRef # Null THEN stop(sources, sourceNodeRef[1]) ELSE sources
    /\ isPlaying' = FALSE
    /\ status' = "IDLE"
    /\ image' = Null
    /\ landmark' = Null
    /\ details' = Null
    /\ attempts' = Supersede(attempts)
    /\ UNCHANGED << error, audioBuffer, audioContextRef, sourceNodeRef, readers,
                    apiKey, selected >>

\* a playing source reaches the end of its buffer
sourceEnds(n) ==
    /\ n \in 1..Len(sources)
    /\ sources[n].state = "playing"
    /\ sources' = [sources EXCEPT ![n] = Source("ended", TRUE)]
    /\ UNCHANGED << status, image, error, landmark, details, audioBuffer, isPlaying,
                    audioContextRef, sourceNodeRef, readers, attempts, apiKey, selected >>

\* source.onended = () => setIsPlaying(false)
onended(n) ==
    /\ n \in 1..Len(sources)
    /\ sources[n].endedQueued
    /\ sources' = [sources EXCEPT ![n].endedQueued = FALSE]
    /\ isPlaying' = FALSE
    /\ UNCHANGED << status, image, error, landmark, details, audioBuffer,
                    audioContextRef, sourceNodeRef, readers, attempts, apiKey, selected >>

\* ------------------------------------------------- the program
fnVars == << chunksIn, detailsOut, descriptionIn, ttsTextOut >>

FileSelected ==
    /\ \E file \in Files : handleFileSelect(file)
    /\ UNCHANGED fnVars

ReaderLoaded ==
    /\ \E k \in 1..Len(readers) : readerOnload(k)
    /\ UNCHANGED fnVars

IdentifySettles ==
    /\ \E i \in 1..Len(attempts), resp \in VisionResponses : identifyDone(i, resp)
    /\ UNCHANGED fnVars

DetailsSettle ==
    /\ \E i \in 1..Len(attempts), resp \in DetailResponses : detailsDone(i, resp)
    /\ UNCHANGED fnVars

NarrationSettles ==
    /\ \E i \in 1..Len(attempts), resp \in NarrationResponses : narrationDone(i, resp)
    /\ UNCHANGED fnVars

DecodeSettles ==
    /\ \E i \in 1..Len(attempts) :
        /\ attempts[i].pc = "decode"
        /\ \E buffer \in DecodeResults(attempts[i].rawBytes[1]) : decodeDone(i, buffer)
    /\ UNCHANGED fnVars

\* the play/pause button of ResultOverlay
ToggleClicked ==
    /\ CompleteView
    /\ toggleAudio
    /\ UNCHANGED fnVars

\* "Try Again" in the error view, the close button of ResultOverlay
ResetClicked ==
    /\ ErrorView \/ CompleteView
    /\ resetApp
    /\ UNCHANGED fnVars

SourceEnds ==
    /\ \E n \in 1..Len(sources) : sourceEnds(n)
    /\ UNCHANGED fnVars

EndedDelivered ==
    /\ \E n \in 1..Len(sources) : onended(n)
    /\ UNCHANGED fnVars

Next ==
    \/ FileSelected
    \/ ReaderLoaded
    \/ IdentifySettles
    \/ DetailsSettle
    \/ NarrationSettles
    \/ DecodeSettles
    \/ ToggleClicked
    \/ ResetClicked
    \/ SourceEnds
    \/ EndedDelivered

Spec == Init /\ [][Next]_vars

\* ------------------------------------------------- the handlers called in any state
\* toggleAudio called whatever is rendered
ToggleCalled ==
    /\ toggleAudio
    /\ UNCHANGED fnVars

NextCalls ==
    \/ FileSelected
    \/ ReaderLoaded
    \/ IdentifySettles
    \/ DetailsSettle
    \/ NarrationSettles
    \/ DecodeSettles
    \/ ToggleCalled
    \/ ResetClicked
    \/ SourceEnds
    \/ EndedDelivered

SpecCalls == Init /\ [][NextCalls]_vars

\* ------------------------------------------------- getLandmarkDetails on its own
\* the grounding chunks a response can carry
ChunkTitles == {"", "T1", "T2"}

ChunkUris == {"", "a", "b", "c"}

Chunks == {NoWeb} \cup {Web(t, u) : t \in ChunkTitles, u \in ChunkUris}

ChunkLists == UNION {[1..n -> Chunks] : n \in 0..MaxChunks}

InitDetails ==
    /\ AppInit
    /\ chunksIn \in ChunkLists
    /\ detailsOut = Null
    /\ descriptionIn = << >>
    /\ ttsTextOut = Null

\* one call of getLandmarkDetails whose response carries chunksIn
DetailsCalled ==
    /\ detailsOut = Null
    /\ \E t \in DetailTexts : detailsOut' = Some(getLandmarkDetails(Resolves(t, chunksIn, "")))
    /\ UNCHANGED << chunksIn, descriptionIn, ttsTextOut >>
    /\ UNCHANGED appVars

NextDetails == DetailsCalled

SpecDetails == InitDetails /\ [][NextDetails]_vars

\* ------------------------------------------------- the narration text on its own
\* the limit of detailResult.description.length > 500
TtsLimit == 500

Ellipsis == << ".", ".", "." >>

\* String.prototype.substring(0, n) on a text kept as its characters
substring0(text, n) == SubSeq(text, 1, IF n < Len(text) THEN n ELSE Len(text))

\* ttsText of startAnalysis
ttsTextAtLimit(description) ==
    IF Len(description) >= TtsLimit
    THEN substring0(description, TtsLimit) \o Ellipsis
    ELSE description

ttsText(description) ==
    IF Len(description) > TtsLimit
    THEN substring0(description, TtsLimit) \o Ellipsis
    ELSE description

\* descriptions of every length up to MaxExtra past the limit, over a three
\* letter alphabet, in two phases
Letters == << "a", ".", "b" >>

Text(n, phase) == [i \in 1..n |-> Letters[((i + phase) % 3) + 1]]

Descriptions == {Text(n, phase) : n \in 0..(TtsLimit + MaxExtra), phase \in 0..1}

InitNarration ==
    /\ AppInit
    /\ chunksIn = << >>
    /\ detailsOut = Null
    /\ descriptionIn \in Descriptions
    /\ ttsTextOut = Null

\* startAnalysis builds the narration text of descriptionIn
TtsTextBuilt ==
    /\ ttsTextOut = Null
    /\ ttsTextOut' = Some(ttsText(descriptionIn))
    /\ UNCHANGED << chunksIn, detailsOut, descriptionIn >>
    /\ UNCHANGED appVars

NextNarration == TtsTextBuilt

SpecNarration == InitNarration /\ [][NextNarration]_vars

\* ------------------------------------------------- properties
\* attempt i leaves the await it was suspended at in this step
Resumes(i) ==
    /\ i \in 1..Len(attempts)
    /\ attempts[i].pc \in Suspended
    /\ attempts'[i].pc # attempts[i].pc

\* attempt i runs the catch block in this step
Fails(i) == Resumes(i) /\ attempts'[i].pc = "failed"

EndsComplete ==
    status = "COMPLETE" /\ landmark # Null /\ details # Null /\ audioBuffer # Null

EndsError ==
    status = "ERROR" /\ error # Null /\ error[1].message # ""

\* every started attempt has returned and no file is still being read
Settled == attempts # << >> /\ Pending = {} /\ readers = << >>

\* C1: once every call of every attempt has returned or thrown, the pipeline
\* is in exactly one of: COMPLETE with landmark, details and audioBuffer all
\* non-null, or ERROR with a non-empty message (IDLE is where resetApp leaves it).
C1_SettledCompleteOrError ==
    (Settled /\ status # "IDLE") => (EndsComplete # EndsError)

\* C2: status = COMPLETE implies landmark and details are non-null.
C2_CompleteHasResults ==
    status = "COMPLETE" => (landmark # Null /\ details # Null)

\* the status changes the orchestrator is described to make
Forward(s, t) ==
    \/ s = "IDLE" /\ t = "ANALYZING_IMAGE"
    \/ s = "ANALYZING_IMAGE" /\ t = "SEARCHING_INFO"
    \/ s = "SEARCHING_INFO" /\ t = "GENERATING_AUDIO"
    \/ s = "GENERATING_AUDIO" /\ t = "COMPLETE"
    \/ s \in InProgress /\ t = "ERROR"

\* C3: every change of status is a forward step of the pipeline, a step from
\* an in-progress state to ERROR, or a step to IDLE made by resetApp.
C3_StatusTransitions ==
    [][status' # status => (Forward(status, status') \/ (status' = "IDLE" /\ resetApp))]_vars

\* no source node is playing
NoPlayback ==
    /\ isPlaying = FALSE
    /\ \A n \in 1..Len(sources) : sources[n].state # "playing"

\* C4: resetApp from a non-IDLE state yields IDLE with image, landmark,
\* details and error null and no active playback.
C4_ResetClearsAll ==
    [][(status # "IDLE" /\ resetApp) =>
            (/\ status' = "IDLE"
             /\ image' = Null
             /\ landmark' = Null
             /\ details' = Null
             /\ NoPlayback'
             /\ error' = Null)]_vars

\* C5: when a remote call that was pending while resetApp or a later
\* startAnalysis ran settles, none of status, landmark, details, audioBuffer
\* and error changes.
C5_StaleResultNotObserved ==
    [][\A i \in 1..Len(attempts) :
          (Resumes(i) /\ attempts[i].superseded) =>
              UNCHANGED << status, landmark, details, audioBuffer, error >>]_vars

\* the remote calls whose request has been sent and not answered
InFlight == IF apiKey THEN PendingCalls ELSE {}

\* the order of the awaits of one attempt: a step that resumes it either
\* moves it to the next call or ends it
NextCall(pc) ==
    CASE pc = "identify" -> "details"
      [] pc = "details" -> "narration"
      [] pc = "narration" -> "decode"
      [] pc = "decode" -> "complete"

\* C6: the remote calls are strictly sequential: a call is issued only when
\* the call before it has returned successfully, no call is issued after a
\* failure, and at no time are two remote calls in flight.
C6_CallsSequential ==
    [][/\ Cardinality(InFlight') <= 1
       /\ \A i \in 1..Len(attempts) :
             /\ Resumes(i) => attempts'[i].pc \in {NextCall(attempts[i].pc), "failed"}
             /\ attempts[i].pc \in Returned => attempts'[i].pc = attempts[i].pc]_vars

\* the status startAnalysis has set when it is suspended at pc
StatusAt(pc) ==
    CASE pc = "identify" -> "ANALYZING_IMAGE"
      [] pc = "details" -> "SEARCHING_INFO"
      [] pc \in {"narration", "decode"} -> "GENERATING_AUDIO"

\* the messages a failure at pc can carry
FailureMessages(pc) ==
    CASE pc = "identify" ->
             NetMessages \cup {MissingKeyMessage, NoVisionMessage, SyntaxErrorMessage}
      [] pc = "details" -> NetMessages \cup {MissingKeyMessage}
      [] pc = "narration" -> NetMessages \cup {MissingKeyMessage, NoAudioMessage}
      [] pc = "decode" -> {DecodeErrorMessage}

\* C7: when a step fails, status goes to ERROR from the in-progress state the
\* step failed in, and error.message is the failure's message, or the
\* fallback when that is empty: never the empty text.
C7_FailureToError ==
    [][\A i \in 1..Len(attempts) :
          Fails(i) =>
              /\ status = StatusAt(attempts[i].pc)
              /\ status' = "ERROR"
              /\ error' # Null
              /\ error'[1].message # ""
              /\ error'[1].message \in
                     (FailureMessages(attempts[i].pc) \ {""}) \cup {FallbackMessage}]_vars

\* C8: status = ERROR implies error is non-null.
C8_ErrorHasInfo ==
    status = "ERROR" => error # Null

\* both attempts have failed and the error view shows the last failure
C8_Witness ==
    /\ status = "ERROR"
    /\ Len(attempts) = 2
    /\ attempts[1].pc = "failed"
    /\ attempts[2].pc = "failed"
    /\ error # Null

\* C9: error becomes non-null only in a step in which an attempt fails, and
\* the step that begins an attempt leaves error, landmark, details and
\* audioBuffer null with the first remote call (identifyLandmark) pending.
C9_ClearedAtStart ==
    [][/\ (error' # error /\ error' # Null) => \E i \in 1..Len(attempts) : Fails(i)
       /\ Len(attempts') > Len(attempts) =>
             /\ error' = Null
             /\ landmark' = Null
             /\ details' = Null
             /\ audioBuffer' = Null
             /\ attempts'[Len(attempts')].pc = "identify"]_vars

\* the first attempt has failed, which set error, and the second has begun
\* since and is suspended at identifyLandmark: error and the results are null
C9_Witness ==
    /\ Len(attempts) = 2
    /\ attempts[1].pc = "failed"
    /\ attempts[2].pc = "identify"
    /\ error = Null
    /\ landmark = Null
    /\ details = Null

\* the uri of a chunk as the extraction reads it: c.web?.uri || ""
UriOf(c) == IF c.web = Null THEN "" ELSE c.web[1].uri

\* the place of the first chunk with uri u
FirstAt(chunks, u) ==
    CHOOSE i \in 1..Len(chunks) :
        UriOf(chunks[i]) = u /\ \A j \in 1..(i - 1) : UriOf(chunks[j]) # u

\* C10: the sources getLandmarkDetails returns hold each non-empty uri of the
\* chunks exactly once, in the order of the uris' first occurrences.
C10_SourcesUniqueInOrder ==
    (detailsOut # Null /\ detailsOut[1].ok) =>
        LET out == detailsOut[1].value.sources
            uris == {UriOf(chunksIn[i]) : i \in 1..Len(chunksIn)} \ {""}
        IN  /\ \A u \in uris : Cardinality({j \in 1..Len(out) : out[j].uri = u}) = 1
            /\ \A j \in 1..Len(out) : out[j].uri \in uris
            /\ \A j, k \in 1..Len(out) :
                   j < k => FirstAt(chunksIn, out[j].uri) < FirstAt(chunksIn, out[k].uri)

\* uris [a, b, a, c] have given [a, b, c]
C10_Witness ==
    /\ Len(chunksIn) = 4
    /\ [i \in 1..4 |-> UriOf(chunksIn[i])] = << "a", "b", "a", "c" >>
    /\ detailsOut # Null
    /\ detailsOut[1].ok
    /\ [j \in 1..Len(detailsOut[1].value.sources) |-> detailsOut[1].value.sources[j].uri]
           = << "a", "b", "c" >>

\* the title of a chunk as the extraction reads it: c.web?.title || "Source"
TitleOf(c) ==
    IF c.web = Null \/ c.web[1].title = "" THEN FallbackTitle ELSE c.web[1].title

\* C11: the entry getLandmarkDetails returns for a uri is the one of the first
\* chunk with that uri: its title is the first occurrence's title.
C11_FirstTitleWins ==
    (detailsOut # Null /\ detailsOut[1].ok) =>
        LET out == detailsOut[1].value.sources
        IN  \A j \in 1..Len(out) :
                out[j].title = TitleOf(chunksIn[FirstAt(chunksIn, out[j].uri)])

C13_ToggleWithoutBufferNoOp ==
    [][(toggleAudio /\ (audioBuffer = Null \/ audioContextRef = Null)) =>
            UNCHANGED appVars]_vars

\* an audio context exists and the buffer is null (a narration has arrived and
\* is being decoded), where only the buffer test of toggleAudio stops a playback
C13_Witness ==
    /\ audioContextRef # Null
    /\ audioBuffer = Null
    /\ ~isPlaying
    /\ Len(sources) < MaxSources
    /\ ENABLED ToggleCalled

\* the sources that are started and have not ended
Playing == {n \in 1..Len(sources) : sources[n].state = "playing"}

\* startAnalysis begins an attempt in this step
Starts == Len(attempts') > Len(attempts)

\* C14: at most one playback source is active at any time, and after resetApp
\* or the start of a new analysis none is.
C14_OnePlayback ==
    [][/\ Cardinality(Playing') <= 1
       /\ (resetApp \/ Starts) => Playing' = {}]_vars

\* C15: after resetApp the decoded audio buffer is released (audioBuffer is
\* null), so toggleAudio cannot play the previous narration.
C15_ResetReleasesBuffer == [][resetApp => audioBuffer' = Null]_vars

\* toggleAudio starts a source in this step
StartsPlayback == Len(sources') > Len(sources)

\* C15, its consequence: outside the complete view no toggleAudio call starts
\* a playback.
C15_NoPlaybackOutsideComplete ==
    [][(toggleAudio /\ status # "COMPLETE") => ~StartsPlayback]_vars

\* the vision model answers with no text
EmptyVision == Resolves("", << >>, "")

\* C16: when the vision model returns no text, identifyLandmark throws and
\* the attempt ends in the catch block: status is ERROR with that error's
\* message, landmark is still null, and the attempt issues no further call.
C16_EmptyVisionToError ==
    [][\A i \in 1..Len(attempts) :
          (apiKey /\ identifyDone(i, EmptyVision)) =>
              /\ ~identifyLandmark(EmptyVision).ok
              /\ identifyLandmark(EmptyVision).message = NoVisionMessage
              /\ status' = "ERROR"
              /\ error' = Some([message |-> NoVisionMessage])
              /\ attempts'[i].pc = "failed"
              /\ landmark' = Null]_vars

MissingKey == Throw(MissingKeyMessage)

\* C17: without an API key each of identifyLandmark, getLandmarkDetails and
\* generateNarration throws the missing-credential error whatever the backend
\* would answer, so an attempt starts in ANALYZING_IMAGE, the only await it
\* ever leaves is the first, into the catch block with that message, and
\* status is never SEARCHING_INFO or GENERATING_AUDIO.
C17_NoKeyFailsAtFirstCall ==
    [][~apiKey =>
          /\ \A resp \in VisionResponses : identifyLandmark(resp) = MissingKey
          /\ \A resp \in DetailResponses : getLandmarkDetails(resp) = MissingKey
          /\ \A resp \in NarrationResponses : generateNarration(resp) = MissingKey
          /\ InFlight = {}
          /\ status' \notin {"SEARCHING_INFO", "GENERATING_AUDIO"}
          /\ Starts => status' = "ANALYZING_IMAGE"
          /\ \A i \in 1..Len(attempts) :
                Resumes(i) =>
                    /\ attempts[i].pc = "identify"
                    /\ attempts'[i].pc = "failed"
                    /\ status' = "ERROR"
                    /\ error' = Some([message |-> MissingKeyMessage])]_vars

\* without a key, two attempts were started and both have failed at the
\* first call; the error view shows the missing-credential message
C17_Witness ==
    /\ ~apiKey
    /\ Len(attempts) = 2
    /\ \A i \in 1..2 : attempts[i].pc = "failed"
    /\ status = "ERROR"
    /\ error = Some([message |-> MissingKeyMessage])

\* the enrichment answers with no text, with or without grounding chunks
EmptyDetails == {resp \in DetailResponses : ~resp.rejected /\ resp.text = ""}

\* C18: an empty text from the enrichment call is not a failure:
\* getLandmarkDetails returns the fallback description with the source list,
\* and the attempt goes on from the details step to GENERATING_AUDIO and the
\* narration call, not to ERROR.
C18_EmptyDetailsFallback ==
    [][\A i \in 1..Len(attempts), resp \in EmptyDetails :
          (apiKey /\ detailsDone(i, resp)) =>
              /\ getLandmarkDetails(resp).ok
              /\ details' # Null
              /\ details'[1].description = "Could not retrieve details."
              /\ details'[1].sources = uniqueSources(mappedSources(resp.chunks))
              /\ status' = "GENERATING_AUDIO"
              /\ attempts'[i].pc = "narration"
              /\ error' = error]_vars

\* a single attempt is at the narration call with the fallback description
\* and a non-empty source list
C18_Witness ==
    /\ Len(attempts) = 1
    /\ attempts[1].pc = "narration"
    /\ status = "GENERATING_AUDIO"
    /\ error = Null
    /\ details # Null
    /\ details[1].description = FallbackDescription
    /\ details[1].sources # << >>

\* C19: the audio context is created lazily and at most once: there is none
\* until an attempt reaches audio decoding, the step that creates it is an
\* attempt going from the narration call to decoding, and once there is one
\* every later analysis, reset and playback leaves it the same context.
C19_OneLazyContext ==
    [][/\ audioContextRef = Null =>
              \A i \in 1..Len(attempts) : attempts[i].pc \notin {"decode", "complete"}
       /\ (audioContextRef = Null /\ audioContextRef' # Null) =>
              \E i \in 1..Len(attempts) :
                  attempts[i].pc = "narration" /\ attempts'[i].pc = "decode"
       /\ audioContextRef # Null => audioContextRef' = audioContextRef]_vars

\* the second analysis is complete and has played on the context the first
\* analysis created
C19_Witness ==
    /\ Len(attempts) = 2
    /\ attempts[2].pc = "complete"
    /\ audioContextRef = Some(1)
    /\ sources # << >>

\* the source held in sourceNodeRef is playing
CurrentPlaying ==
    sourceNodeRef # Null /\ sources[sourceNodeRef[1]].state = "playing"

\* the source held in sourceNodeRef has ended and its ended event is still
\* to be delivered
CurrentEnding ==
    sourceNodeRef # Null /\ sources[sourceNodeRef[1]].endedQueued

\* C20: isPlaying agrees with playback in every reachable state: it is true
\* if and only if the source held in sourceNodeRef is playing (a source that
\* has just ended, with its onended callback still to run, is allowed to
\* count as playing).
C20_IsPlayingAgrees ==
    /\ isPlaying => (CurrentPlaying \/ CurrentEnding)
    /\ CurrentPlaying => isPlaying

\* the views whose render condition holds
Rendered ==
    {v \in {"idle", "loading", "error", "complete"} :
        \/ v = "idle" /\ IdleView
        \/ v = "loading" /\ LoadingView
        \/ v = "error" /\ ErrorView
        \/ v = "complete" /\ CompleteView}

\* C21: in every reachable state exactly one of the four views is rendered,
\* selected by status; in particular status = COMPLETE renders the result
\* view: landmark, details and image are all non-null.
C21_OneViewRendered ==
    /\ Cardinality(Rendered) = 1
    /\ status = "COMPLETE" => CompleteView

====
